---- MODULE Spec2Model ----
(***************************************************************************)
(* Educational AI Tutor (src/main.py): the streaming generation and        *)
(* cancellation pipeline (ModelThread, ChatbotApp.send_message,            *)
(* check_response_queue, stop_generation, clear_chat), the request that    *)
(* send_message builds, the model manager's offline mode and the token     *)
(* usage colours.                                                          *)
(*                                                                         *)
(* A text is a sequence of pieces <<kind, a, b, tokens>>: a piece is a run *)
(* of characters that the tokenizer counts as `tokens` tokens.  Kinds:     *)
(* "word" (typed or loaded text), "chunk" (chunk b of worker a), "wrap"    *)
(* (the literal wrapper send_message puts around a query with context).    *)
(* No piece is whitespace, so text.strip() is empty iff the text is <<>>.  *)
(***************************************************************************)
EXTENDS Integers, Sequences, FiniteSets, TLC

\* ---------------------------------------------------------------- bounds
MaxThreads == 2         \* ModelThread objects created in one run of Spec
MaxChunks == 2          \* chunks one worker streams through StreamCapture in Spec
MaxStopPolls == 1       \* check_stopped timer chains pending at once
LiveMaxThreads == 1     \* ModelThread objects created in one run of LiveSpec
LiveMaxChunks == 1      \* chunks one worker streams in LiveSpec
SendMaxThreads == 2     \* ModelThread objects created in one run of SendSpec
SendMaxChunks == 1      \* chunks one worker streams in SendSpec
MaxAttachments == 1     \* attachments queued at once
MaxLoaders == 1         \* load and download threads and their callbacks pending at once
MaxSessions == 1        \* sessions ended and followed by a new start of the application
MaxPages == 3           \* pages of a PDF opened in the document viewer
MaxMedia == 2           \* clipboard images, captures and recordings attached in one run
MaxAddresses == 2       \* addresses the allocator hands out for a clipboard image object
MaxImages == 2          \* different images the user copies to the clipboard
ColorRadius == 20       \* token counts tried on each side of a colour boundary

\* ------------------------------------------------------ program constants
max_context_tokens == 32000
image_tokens == 256
DefaultMaxOutputTokens == 512
DefaultHistoryMessages == 10
\* tokens of the literal text send_message puts around a query with context
\* ("Based on the context below, please answer: " and "\n\nContext:\n")
WrapperTokens == 13

VARIABLES
    model_loaded,               \* ChatbotApp.model_loaded
    is_generating,              \* ChatbotApp.is_generating
    current_generation_thread,  \* 0 is None, else the id of a ModelThread
    threads,                    \* the ModelThread objects created so far, by id, each with
                                \* what send_message had when it built it (queued, max_messages)
                                \* and the types of the messages its run has put (put)
    response_queue,             \* queue.Queue shared by workers and the UI
    chat_history,               \* ChatbotApp.chat_history
    attachments,                \* ChatbotApp.attachments
    context_text,               \* content of the context_display widget, stripped
    history_messages_var,       \* tk.StringVar of "Messages to include"
    max_tokens_var,             \* tk.StringVar of "Max Output Tokens"
    max_output_tokens,          \* ChatbotApp.max_output_tokens
    send_btn,                   \* state of the Send button
    stop_polls,                 \* check_stopped callbacks waiting in the Tk timer queue
    completed,                  \* id -> what the history held when 'complete' was handled
    cleared,                    \* id -> the chat was cleared during that generation
    offline_mode,               \* ModelManager.config["offline_mode"]
    last_used_model,            \* ModelManager.config["last_used_model"]
    downloaded_models,          \* ModelManager.config["downloaded_models"]
    local_models,               \* model directories under models_dir
    online,                     \* the machine can reach huggingface.co
    init_pending,               \* root.after(100, init_model_async) has not fired yet
    loaders,                    \* load and download threads that are running
    ui_calls,                   \* callbacks a load thread posted with root.after(0, ..)
    net_opened_offline,         \* a network connection was opened while offline_mode
    token_count,                \* argument of get_color_for_usage
    color,                      \* its result
    config_file,                \* content of ~/.educational_ai_tutor/config.json
    savers,                     \* save_config calls running in load and download threads
    stored,                     \* the config as it was when save_config last returned
    toggled,                    \* toggle_offline_mode has run in this session
    sessions,                   \* what each ended session stored, and what the next read
    viewer,                     \* the DocumentViewer window and its fields
    callback_args,              \* what the viewer last passed to its callback
    running,                    \* root.mainloop() has not returned
    clipboard,                  \* the image on the system clipboard, 0 for none
    clipboard_images,           \* ChatbotApp.clipboard_images: id()s seen so far
    clip_adds,                  \* attachments made of the image now on the clipboard
    temp_files,                 \* files made with NamedTemporaryFile(delete=False)
    main_window,                \* the main window: "normal" or "withdrawn"
    capture,                    \* "idle", "timer" (show_capture_widget pending), "widget"
    recording                   \* ChatbotApp.recording

genVars == <<is_generating, current_generation_thread, threads, response_queue,
             chat_history, send_btn, stop_polls, completed, cleared>>
inputVars == <<attachments, context_text, history_messages_var,
               max_tokens_var, max_output_tokens>>
pipeVars == <<model_loaded, genVars, inputVars>>
modelVars == <<offline_mode, last_used_model, downloaded_models, local_models, online,
               init_pending,
               loaders, ui_calls, net_opened_offline>>
colorVars == <<token_count, color>>
cfgVars == <<config_file, savers, stored, toggled, sessions>>
docVars == <<viewer, callback_args>>
mediaVars == <<running, clipboard, clipboard_images, clip_adds, temp_files,
               main_window, capture, recording>>
auxVars == <<cfgVars, docVars, mediaVars>>
vars == <<pipeVars, modelVars, colorVars, auxVars>>

\* ------------------------------------------------------------------ texts
Word(id, n) == <<"word", 0, id, n>>
AttachmentPiece(a) == <<a.type, 0, a.id, 0>>
Chunk(t, k) == <<"chunk", t, k, 1>>
Wrapper == <<"wrap", 0, 0, WrapperTokens>>

RECURSIVE count_text_tokens(_)
count_text_tokens(text) ==
    IF text = <<>> THEN 0 ELSE Head(text)[4] + count_text_tokens(Tail(text))

\* text.strip() is non-empty
NonBlank(text) == text # <<>>

\* the chunks 1..n of worker t, in emission order
RECURSIVE ChunksOf(_, _)
ChunksOf(t, n) == IF n = 0 THEN <<>> ELSE Append(ChunksOf(t, n - 1), Chunk(t, n))

\* a tk.StringVar holds <<"int", n>> (the decimal text of n) or <<"bad", 0>>
\* (text int() rejects)
IntOr(v, default) == IF v[1] = "int" THEN v[2] ELSE default

Max2(a, b) == IF a > b THEN a ELSE b
Min2(a, b) == IF a < b THEN a ELSE b

\* Python h[i:]
PySliceFrom(h, i) ==
    LET s == IF i < 0 THEN Max2(Len(h) + i, 0) ELSE Min2(i, Len(h))
    IN  SubSeq(h, s + 1, Len(h))

\* h[-m:] if len(h) > m else h
RecentHistory(h, m) == IF Len(h) > m THEN PySliceFrom(h, 0 - m) ELSE h

RECURSIVE SumTokens(_)
SumTokens(h) == IF h = <<>> THEN 0 ELSE Head(h).tokens + SumTokens(Tail(h))

\* ------------------------------------------------------------ TokenManager
count_image_tokens(image_count) == image_count * image_tokens

\* int(duration_seconds * 6.25)
count_audio_tokens(duration_seconds) == (duration_seconds * 625) \div 100

\* get_color_for_usage with the last threshold compared by <= instead of <
get_color_for_usage_inclusive(n) ==
    IF n * 100 < 50 * max_context_tokens THEN "#28a745"
    ELSE IF n * 100 < 75 * max_context_tokens THEN "#ffc107"
    ELSE IF n * 100 <= 90 * max_context_tokens THEN "#fd7e14"
    ELSE "#dc3545"

\* TokenManager.get_color_for_usage: usage_percent = (n / 32000) * 100 is
\* compared with 50, 75 and 90; n * 100 against the threshold times 32000 is
\* the same comparison without the division (the floating-point quotient
\* rounds to the same side of each threshold for every count up to 200000)
get_color_for_usage(n) ==
    IF n * 100 < 50 * max_context_tokens THEN "#28a745"
    ELSE IF n * 100 < 75 * max_context_tokens THEN "#ffc107"
    ELSE IF n * 100 < 90 * max_context_tokens THEN "#fd7e14"
    ELSE "#dc3545"

RECURSIVE AttachmentTokens(_)
AttachmentTokens(as) ==
    IF as = <<>> THEN 0
    ELSE (IF Head(as).type = "image" THEN count_image_tokens(1)
          ELSE count_audio_tokens(Head(as).seconds))
         + AttachmentTokens(Tail(as))

\* input_text: the stripped content of the input box
calculate_total_input_tokens(input_text) ==
    LET max_messages == IntOr(history_messages_var, DefaultHistoryMessages)
    IN  count_text_tokens(input_text) + count_text_tokens(context_text)
        + SumTokens(RecentHistory(chat_history, max_messages))
        + AttachmentTokens(attachments)

\* ------------------------------------------------------------ ModelThread
\* a message on the queue: (msg_type, content), and the worker that put it
Msg(type, content, t) == [type |-> type, content |-> content, from |-> t]

NotYet == <<<<"pending", 0, 0, 0>>>>
Missing == <<<<"missing", 0, 0, 0>>>>

ThreadIds == DOMAIN threads

\* threading.Thread.is_alive()
is_alive(t) == threads[t].pc # "dead"

AliveThreads == {t \in ThreadIds : is_alive(t)}

\* ModelThread.stop
stop(t) == [threads EXCEPT ![t].stop = TRUE]

\* run, up to the call of model.generate: every check of stop_generation
\* before it returns without a message; the tokenizer may raise
RunPrepare(t) ==
    /\ threads[t].pc = "prep"
    /\ \E raised \in BOOLEAN :
         threads' = [threads EXCEPT ![t].pc =
                        IF threads[t].stop THEN "dead"
                        ELSE IF raised THEN "except" ELSE "gen"]
    /\ UNCHANGED <<model_loaded, is_generating, current_generation_thread,
                   response_queue, chat_history, send_btn, stop_polls, completed,
                   cleared, inputVars, modelVars, colorVars, auxVars>>

\* model.generate hands text to StreamCapture: put and on_finalized_text both
\* return when the stop event is set; otherwise the text is about to be queued
StreamCheck(t, chunks) ==
    /\ threads[t].pc = "gen"
    /\ threads[t].emitted < chunks
    /\ ~threads[t].stop
    /\ threads' = [threads EXCEPT ![t].pc = "oft"]
    /\ UNCHANGED <<model_loaded, is_generating, current_generation_thread,
                   response_queue, chat_history, send_btn, stop_polls, completed,
                   cleared, inputVars, modelVars, colorVars, auxVars>>

\* on_finalized_text: self.queue.put(('chunk', cleaned_text))
on_finalized_text(t) ==
    /\ threads[t].pc = "oft"
    /\ response_queue' = Append(response_queue,
           Msg("chunk", <<Chunk(t, threads[t].emitted + 1)>>, t))
    /\ threads' = [threads EXCEPT ![t].pc = "gen", ![t].emitted = @ + 1,
                                  ![t].put = Append(@, "chunk")]
    /\ UNCHANGED <<model_loaded, is_generating, current_generation_thread,
                   chat_history, send_btn, stop_polls, completed, cleared,
                   inputVars, modelVars, colorVars, auxVars>>

\* model.generate returns, or raises
GenerateEnds(t) ==
    /\ threads[t].pc = "gen"
    /\ \E raised \in BOOLEAN :
         threads' = [threads EXCEPT ![t].pc = IF raised THEN "except" ELSE "fin"]
    /\ UNCHANGED <<model_loaded, is_generating, current_generation_thread,
                   response_queue, chat_history, send_btn, stop_polls, completed,
                   cleared, inputVars, modelVars, colorVars, auxVars>>

\* the except branch returning without a message whether stopped or not
ManualError_returns(t) ==
    /\ threads[t].pc = "except"
    /\ threads' = [threads EXCEPT ![t].pc = "dead"]
    /\ UNCHANGED <<model_loaded, is_generating, current_generation_thread,
                   response_queue, chat_history, send_btn, stop_polls, completed,
                   cleared, inputVars, modelVars, colorVars, auxVars>>

\* except Exception as manual_error: return if stopped, else the fallback
ManualError(t) ==
    /\ threads[t].pc = "except"
    /\ threads' = [threads EXCEPT ![t].pc =
                      IF threads[t].stop THEN "dead" ELSE "fallback"]
    /\ UNCHANGED <<model_loaded, is_generating, current_generation_thread,
                   response_queue, chat_history, send_btn, stop_polls, completed,
                   cleared, inputVars, modelVars, colorVars, auxVars>>

\* the fallback: generate without a streamer, decode, and queue the whole
\* response as one chunk when it is not blank; or the fallback raises
FallbackPut(t) ==
    [queue |-> Append(response_queue,
                      Msg("chunk", <<Chunk(t, threads[t].emitted + 1)>>, t)),
     threads |-> [threads EXCEPT ![t].pc = "fin", ![t].emitted = @ + 1,
                                 ![t].put = Append(@, "chunk")]]

Fallback(t) ==
    /\ threads[t].pc = "fallback"
    /\ \E outcome \in {"text", "blank", "raise"} :
         IF outcome = "text"
         THEN /\ response_queue' = FallbackPut(t).queue
              /\ threads' = FallbackPut(t).threads
         ELSE /\ response_queue' = response_queue
              /\ threads' = [threads EXCEPT ![t].pc =
                                IF outcome = "blank" THEN "fin" ELSE "outer"]
    /\ UNCHANGED <<model_loaded, is_generating, current_generation_thread,
                   chat_history, send_btn, stop_polls, completed, cleared,
                   inputVars, modelVars, colorVars, auxVars>>

\* the end of run, with the worker itself ending the generation in the UI
Finish_updates_ui(t) ==
    /\ threads[t].pc = "fin"
    /\ response_queue' = Append(response_queue,
           Msg(IF threads[t].stop THEN "stopped" ELSE "complete", <<>>, t))
    /\ threads' = [threads EXCEPT ![t].pc = "dead",
           ![t].put = Append(@, IF threads[t].stop THEN "stopped" ELSE "complete")]
    /\ is_generating' = FALSE
    /\ current_generation_thread' = 0
    /\ UNCHANGED <<model_loaded, chat_history, send_btn, stop_polls, completed, cleared,
                   inputVars, modelVars, colorVars, auxVars>>

\* the end of run: ('complete', None) or ('stopped', None)
Finish(t) ==
    /\ threads[t].pc = "fin"
    /\ response_queue' = Append(response_queue,
           Msg(IF threads[t].stop THEN "stopped" ELSE "complete", <<>>, t))
    /\ threads' = [threads EXCEPT ![t].pc = "dead",
           ![t].put = Append(@, IF threads[t].stop THEN "stopped" ELSE "complete")]
    /\ UNCHANGED <<model_loaded, is_generating, current_generation_thread,
                   chat_history, send_btn, stop_polls, completed, cleared,
                   inputVars, modelVars, colorVars, auxVars>>

\* except Exception as e: ('error', ..) unless stopped
OuterError(t) ==
    /\ threads[t].pc = "outer"
    /\ response_queue' = IF threads[t].stop THEN response_queue
                         ELSE Append(response_queue, Msg("error", <<>>, t))
    /\ threads' = [threads EXCEPT ![t].pc = "dead",
           ![t].put = IF threads[t].stop THEN @ ELSE Append(@, "error")]
    /\ UNCHANGED <<model_loaded, is_generating, current_generation_thread,
                   chat_history, send_btn, stop_polls, completed, cleared,
                   inputVars, modelVars, colorVars, auxVars>>

\* one step of ModelThread.run; generate streams at most `chunks` chunks
run(t, chunks) ==
    \/ RunPrepare(t)
    \/ StreamCheck(t, chunks)
    \/ on_finalized_text(t)
    \/ GenerateEnds(t)
    \/ ManualError(t)
    \/ Fallback(t)
    \/ Finish(t)
    \/ OuterError(t)

\* -------------------------------------------------------------- ChatbotApp
\* add_message: the entry appended to chat_history (gen: the worker an
\* assistant entry was opened for, 0 for a user entry)
Entry(role, content, tokens, gen) ==
    [role |-> role, content |-> content,
     tokens |-> IF tokens # 0 THEN tokens ELSE count_text_tokens(content),
     gen |-> gen]

\* full_message of send_message
FullMessage(text, context) ==
    IF context # <<>> THEN <<Wrapper>> \o text \o context ELSE text

\* the role/content pairs of the entries whose content is not blank
RECURSIVE HistoryMessages(_)
HistoryMessages(h) ==
    IF h = <<>> THEN <<>>
    ELSE (IF NonBlank(Head(h).content)
          THEN <<[role |-> Head(h).role, content |-> Head(h).content]>>
          ELSE <<>>) \o HistoryMessages(Tail(h))

\* recent_history = self.chat_history[:-1], cut to its last max_messages
\* entries when it is longer than max_messages
SendWindow(h, max_messages) ==
    LET recent == SubSeq(h, 1, Len(h) - 1)
    IN  IF Len(recent) > max_messages THEN PySliceFrom(recent, 0 - max_messages)
        ELSE recent

\* the messages list send_message hands to ModelThread; h already ends with
\* the user entry just added
BuildMessages(h, text, context, max_messages) ==
    LET full == FullMessage(text, context)
        hist == HistoryMessages(SendWindow(h, max_messages))
        withFull == IF full # <<>> THEN Append(hist, [role |-> "user", content |-> full])
                    ELSE hist
    IN  IF withFull = <<>>
        THEN <<[role |-> "user", content |-> IF text # <<>> THEN text
                                             ELSE <<Word(0, 1)>>]>>
        ELSE withFull

\* the Send button and Ctrl+Enter, with input_text in the input box
send_message(limit, input_text) ==
    /\ model_loaded
    /\ ~is_generating
    /\ calculate_total_input_tokens(input_text) <= max_context_tokens
    /\ input_text # <<>> \/ context_text # <<>>
    /\ Len(threads) < limit
    /\ LET full == FullMessage(input_text, context_text)
           t == Len(threads) + 1
           withUser == Append(chat_history,
                              Entry("user", input_text, count_text_tokens(full), 0))
           max_messages == IntOr(history_messages_var, DefaultHistoryMessages)
           messages == BuildMessages(withUser, input_text, context_text, max_messages)
       IN  /\ threads' = Append(threads,
                  [pc |-> "prep", stop |-> FALSE, emitted |-> 0,
                   messages |-> messages, max_tokens |-> max_output_tokens,
                   queued |-> attachments, max_messages |-> max_messages,
                   put |-> <<>>])
           /\ current_generation_thread' = t
           /\ chat_history' = Append(withUser, Entry("assistant", <<>>, 0, t))
           /\ completed' = Append(completed, NotYet)
           /\ cleared' = Append(cleared, FALSE)
    /\ attachments' = <<>>
    /\ is_generating' = TRUE
    /\ send_btn' = "disabled"
    /\ UNCHANGED <<model_loaded, response_queue, stop_polls, context_text,
                   history_messages_var, max_tokens_var, max_output_tokens,
                   modelVars, colorVars, auxVars>>

\* what check_response_queue does with one message; S is the UI state
LastIsAssistant(h) == h # <<>> /\ h[Len(h)].role = "assistant"

GenContent(h, t) ==
    IF \E i \in DOMAIN h : h[i].gen = t
    THEN h[CHOOSE i \in DOMAIN h : h[i].gen = t].content
    ELSE Missing

Ended(S, h) ==
    [S EXCEPT !.h = h, !.cur = 0, !.gen = FALSE, !.btn = "normal"]

Handle(S, m) ==
    LET h == S.h
        n == Len(h)
    IN  CASE m.type = "chunk" ->
               IF LastIsAssistant(h)
               THEN [S EXCEPT !.h = [h EXCEPT ![n].content = @ \o m.content]]
               ELSE S
          [] m.type = "complete" ->
               LET h2 == IF LastIsAssistant(h)
                         THEN [h EXCEPT ![n].tokens = count_text_tokens(h[n].content)]
                         ELSE h
               IN  [Ended(S, h2) EXCEPT !.comp = [@ EXCEPT ![m.from] = GenContent(h2, m.from)]]
          [] m.type = "stopped" ->
               Ended(S, IF LastIsAssistant(h)
                        THEN IF NonBlank(h[n].content)
                             THEN [h EXCEPT ![n].tokens = count_text_tokens(h[n].content)]
                             ELSE SubSeq(h, 1, n - 1)
                        ELSE h)
          [] OTHER -> Ended(S, h)

\* the loop of check_response_queue over the messages q, from UI state S
\* (each intermediate state is bound as a value, so it is computed once)
RECURSIVE Drain(_, _)
Drain(S, q) ==
    IF q = <<>> THEN S
    ELSE CHOOSE R \in {Drain(S1, Tail(q)) : S1 \in {Handle(S, Head(q))}} : TRUE

\* the 50 ms poll: get_nowait until queue.Empty
check_response_queue ==
    /\ response_queue # <<>>
    /\ \E S \in {Drain([h |-> chat_history, cur |-> current_generation_thread,
                        gen |-> is_generating, btn |-> send_btn, comp |-> completed],
                       response_queue)} :
           /\ chat_history' = S.h
           /\ current_generation_thread' = S.cur
           /\ is_generating' = S.gen
           /\ send_btn' = S.btn
           /\ completed' = S.comp
    /\ response_queue' = <<>>
    /\ UNCHANGED <<model_loaded, threads, stop_polls, cleared, inputVars, modelVars,
                   colorVars, auxVars>>

\* the Stop button and Escape.  Each call starts a check_stopped timer chain;
\* chains beyond MaxStopPolls are counted as one with the last
stop_generation ==
    /\ current_generation_thread # 0
    /\ is_generating
    /\ threads' = stop(current_generation_thread)
    /\ stop_polls' = Min2(stop_polls + 1, MaxStopPolls)
    /\ UNCHANGED <<model_loaded, is_generating, current_generation_thread,
                   response_queue, chat_history, send_btn, completed, cleared,
                   inputVars, modelVars, colorVars, auxVars>>

\* check_stopped without its call of update_ui_for_generation(False)
check_stopped_keeps_ui ==
    /\ stop_polls > 0
    /\ ~(current_generation_thread # 0 /\ threads[current_generation_thread].pc # "dead")
    /\ stop_polls' = stop_polls - 1
    /\ UNCHANGED <<model_loaded, is_generating, current_generation_thread, send_btn,
                   threads, response_queue, chat_history, completed, cleared,
                   inputVars, modelVars, colorVars, auxVars>>

\* the 100 ms poll stop_generation starts; it re-arms itself while the
\* current worker is alive
check_stopped ==
    /\ stop_polls > 0
    /\ ~(current_generation_thread # 0 /\ is_alive(current_generation_thread))
    /\ stop_polls' = stop_polls - 1
    /\ IF is_generating
       THEN /\ current_generation_thread' = 0
            /\ is_generating' = FALSE
            /\ send_btn' = "normal"
       ELSE UNCHANGED <<current_generation_thread, is_generating, send_btn>>
    /\ UNCHANGED <<model_loaded, threads, response_queue, chat_history, completed,
                   cleared, inputVars, modelVars, colorVars, auxVars>>

\* the Clear Chat button
clear_chat ==
    /\ IF is_generating /\ current_generation_thread # 0
       THEN /\ threads' = stop(current_generation_thread)
            /\ stop_polls' = Min2(stop_polls + 1, MaxStopPolls)
       ELSE UNCHANGED <<threads, stop_polls>>
    /\ chat_history' = <<>>
    /\ attachments' = <<>>
    /\ current_generation_thread' = 0
    /\ is_generating' = FALSE
    /\ send_btn' = "normal"
    /\ cleared' = [t \in DOMAIN cleared |-> cleared[t] \/ completed[t] = NotYet]
    /\ UNCHANGED <<model_loaded, response_queue, completed, context_text,
                   history_messages_var, max_tokens_var, max_output_tokens,
                   modelVars, colorVars, auxVars>>

\* on_document_processed: the document viewer hands over the context text
on_document_processed(text_content) ==
    /\ context_text' = text_content
    /\ UNCHANGED <<model_loaded, genVars, attachments, history_messages_var,
                   max_tokens_var, max_output_tokens, modelVars, colorVars, auxVars>>

clear_context ==
    /\ context_text' = <<>>
    /\ UNCHANGED <<model_loaded, genVars, attachments, history_messages_var,
                   max_tokens_var, max_output_tokens, modelVars, colorVars, auxVars>>

\* select_image, for one chosen file
select_image ==
    /\ Len(attachments) < MaxAttachments
    /\ attachments' = Append(attachments, [type |-> "image", id |-> Len(attachments) + 1])
    /\ UNCHANGED <<model_loaded, genVars, context_text, history_messages_var,
                   max_tokens_var, max_output_tokens, modelVars, colorVars, auxVars>>

\* typing v in the "Messages to include" spinbox (update_history_context only
\* refreshes the display)
TypeHistoryMessages(v) ==
    /\ history_messages_var' = v
    /\ UNCHANGED <<model_loaded, genVars, attachments, context_text, max_tokens_var,
                   max_output_tokens, modelVars, colorVars, auxVars>>

\* typing v in the "Max Output Tokens" spinbox: <KeyRelease> runs
\* update_max_tokens
update_max_tokens(v) ==
    /\ max_tokens_var' = v
    /\ max_output_tokens' = IntOr(v, DefaultMaxOutputTokens)
    /\ UNCHANGED <<model_loaded, genVars, attachments, context_text,
                   history_messages_var, modelVars, colorVars, auxVars>>

\* ---------------------------------------------------------- DocumentViewer
\* the text of page n of the PDF, the "--- Page n ---" line extract_text puts
\* before it, and the content of a file that is not a PDF
PageText(n) == <<Word(100 + n, n)>>
PageHeader(n) == <<"hdr", 0, n, 6>>
FileText == <<Word(100, 7)>>

NoViewer == [open |-> FALSE, is_pdf |-> FALSE, total_pages |-> 1, current_page |-> 0,
             selected_pages |-> {}]
NoCall == [by |-> "none", text |-> <<>>, pages |-> <<>>, is_pdf |-> FALSE,
           total_pages |-> 0, selected_pages |-> {}]

DocClosed ==
    /\ viewer = NoViewer
    /\ callback_args = NoCall

\* sorted(pages), for page numbers from `from` up
RECURSIVE Sorted(_, _)
Sorted(pages, from) ==
    IF \A p \in pages : p < from THEN <<>>
    ELSE (IF from \in pages THEN <<from>> ELSE <<>>) \o Sorted(pages, from + 1)

\* DocumentViewer.extract_text: the selected pages when there are any, else
\* every page; a file that is not a PDF is read whole
RECURSIVE ExtractPages(_)
ExtractPages(page_nums) ==
    IF page_nums = <<>> THEN <<>>
    ELSE <<PageHeader(Head(page_nums))>> \o PageText(Head(page_nums))
         \o ExtractPages(Tail(page_nums))

extract_text ==
    IF viewer.is_pdf
    THEN IF viewer.selected_pages # {}
         THEN ExtractPages(Sorted(viewer.selected_pages, 1))
         ELSE ExtractPages(Sorted(1..viewer.total_pages, 1))
    ELSE FileText

\* select_document: DocumentViewer(self.root, file_path, on_document_processed)
select_document(is_pdf, pages) ==
    /\ ~viewer.open
    /\ viewer' = [open |-> TRUE, is_pdf |-> is_pdf,
                  total_pages |-> IF is_pdf THEN pages ELSE 1,
                  current_page |-> 0, selected_pages |-> {}]
    /\ UNCHANGED <<pipeVars, modelVars, colorVars, cfgVars, callback_args, mediaVars>>

prev_page ==
    /\ viewer.open /\ viewer.is_pdf
    /\ viewer.current_page > 0
    /\ viewer' = [viewer EXCEPT !.current_page = @ - 1]
    /\ UNCHANGED <<pipeVars, modelVars, colorVars, cfgVars, callback_args, mediaVars>>

next_page ==
    /\ viewer.open /\ viewer.is_pdf
    /\ viewer.current_page < viewer.total_pages - 1
    /\ viewer' = [viewer EXCEPT !.current_page = @ + 1]
    /\ UNCHANGED <<pipeVars, modelVars, colorVars, cfgVars, callback_args, mediaVars>>

\* a click on the page canvas
toggle_page_selection ==
    /\ viewer.open /\ viewer.is_pdf
    /\ LET page_num == viewer.current_page + 1
       IN  viewer' = [viewer EXCEPT !.selected_pages =
                         IF page_num \in @ THEN @ \ {page_num} ELSE @ \cup {page_num}]
    /\ UNCHANGED <<pipeVars, modelVars, colorVars, cfgVars, callback_args, mediaVars>>

\* "Select Range" with page_from and page_to as typed; text that is not a
\* number raises ValueError and selects nothing
select_range(page_from, page_to) ==
    /\ viewer.open /\ viewer.is_pdf
    /\ IF page_from[1] = "int" /\ page_to[1] = "int"
       THEN LET start == Max2(1, Min2(page_from[2], viewer.total_pages))
                end == Max2(start, Min2(page_to[2], viewer.total_pages))
            IN  viewer' = [viewer EXCEPT !.selected_pages = @ \cup (start..end)]
       ELSE UNCHANGED viewer
    /\ UNCHANGED <<pipeVars, modelVars, colorVars, cfgVars, callback_args, mediaVars>>

clear_selection ==
    /\ viewer.open /\ viewer.is_pdf
    /\ viewer' = [viewer EXCEPT !.selected_pages = {}]
    /\ UNCHANGED <<pipeVars, modelVars, colorVars, cfgVars, callback_args, mediaVars>>

\* what a "Use" button does after extract_text: the callback, which is
\* on_document_processed, then window.destroy()
Deliver(by, text_content, pages) ==
    /\ callback_args' = [by |-> by, text |-> text_content, pages |-> pages,
                         is_pdf |-> viewer.is_pdf, total_pages |-> viewer.total_pages,
                         selected_pages |-> viewer.selected_pages]
    /\ context_text' = text_content
    /\ viewer' = NoViewer
    /\ UNCHANGED <<model_loaded, genVars, attachments, history_messages_var,
                   max_tokens_var, max_output_tokens, modelVars, colorVars, cfgVars,
                   mediaVars>>

\* "Use Selected"
use_selected ==
    /\ viewer.open
    /\ viewer.is_pdf /\ viewer.selected_pages # {}
    /\ Deliver("selected", extract_text, Sorted(viewer.selected_pages, 1))

\* "Use All Text"
use_all_text ==
    /\ viewer.open
    /\ Deliver("all", extract_text,
               IF viewer.is_pdf THEN Sorted(1..viewer.total_pages, 1) ELSE <<1>>)

\* ------------------------------------------- clipboard, capture, recording
MediaIdle ==
    /\ running = TRUE
    /\ clipboard = 0
    /\ clipboard_images = {}
    /\ clip_adds = 0
    /\ temp_files = {}
    /\ main_window = "normal"
    /\ capture = "idle"
    /\ recording = FALSE

\* what the media handlers leave alone in the rest of the application
MediaFrame ==
    UNCHANGED <<model_loaded, genVars, context_text, history_messages_var,
                max_tokens_var, max_output_tokens, modelVars, colorVars, cfgVars,
                docVars>>

\* tempfile.NamedTemporaryFile(delete=False): a new file, named by its number
NewTempFile == Cardinality(temp_files) + 1

\* the user copies image k to the clipboard
CopyImage(k) ==
    /\ running
    /\ clipboard # k
    /\ clipboard' = k
    /\ clip_adds' = 0
    /\ MediaFrame
    /\ UNCHANGED <<attachments, running, clipboard_images, temp_files, main_window,
                   capture, recording>>

\* the once-per-second poll.  ImageGrab.grabclipboard() builds a new Image
\* object on every call and the one of the poll before is freed, so id(image)
\* is whatever address the allocator hands out this time
check_clipboard(address) ==
    /\ running
    /\ IF clipboard # 0 /\ address \notin clipboard_images
       THEN /\ Len(attachments) < MaxMedia
            /\ clipboard_images' = clipboard_images \cup {address}
            /\ temp_files' = temp_files \cup {NewTempFile}
            /\ attachments' = Append(attachments,
                   [type |-> "image", id |-> Len(attachments) + 1, file |-> NewTempFile])
            /\ clip_adds' = clip_adds + 1
       ELSE UNCHANGED <<clipboard_images, temp_files, attachments, clip_adds>>
    /\ MediaFrame
    /\ UNCHANGED <<running, clipboard, main_window, capture, recording>>

\* the "Capture Screen" button: root.withdraw(), root.after(200, ..)
capture_screen ==
    /\ running
    /\ main_window = "normal"
    /\ main_window' = "withdrawn"
    /\ capture' = "timer"
    /\ MediaFrame
    /\ UNCHANGED <<attachments, running, clipboard, clipboard_images, clip_adds,
                   temp_files, recording>>

\* show_capture_widget: ScreenCapture(self.on_screen_captured)
show_capture_widget ==
    /\ running
    /\ capture = "timer"
    /\ capture' = "widget"
    /\ MediaFrame
    /\ UNCHANGED <<attachments, running, clipboard, clipboard_images, clip_adds,
                   temp_files, main_window, recording>>

\* ScreenCapture.on_release: the widget is destroyed and the callback,
\* on_screen_captured, shows the main window and attaches the image
on_release ==
    /\ running
    /\ capture = "widget"
    /\ Len(attachments) < MaxMedia
    /\ capture' = "idle"
    /\ main_window' = "normal"
    /\ temp_files' = temp_files \cup {NewTempFile}
    /\ attachments' = Append(attachments,
           [type |-> "image", id |-> Len(attachments) + 1, file |-> NewTempFile])
    /\ MediaFrame
    /\ UNCHANGED <<running, clipboard, clipboard_images, clip_adds, recording>>

\* Escape in the capture widget: lambda e: self.root.destroy()
CancelCapture ==
    /\ running
    /\ capture = "widget"
    /\ capture' = "idle"
    /\ MediaFrame
    /\ UNCHANGED <<attachments, running, clipboard, clipboard_images, clip_adds,
                   temp_files, main_window, recording>>

\* the "Record Audio" button: start, or stop and save_audio; without audio
\* data (seconds = 0) save_audio does nothing
toggle_recording(seconds) ==
    /\ running
    /\ main_window = "normal"
    /\ recording' = ~recording
    /\ IF recording /\ seconds > 0
       THEN /\ Len(attachments) < MaxMedia
            /\ temp_files' = temp_files \cup {NewTempFile}
            /\ attachments' = Append(attachments,
                   [type |-> "audio", id |-> Len(attachments) + 1, file |-> NewTempFile,
                    seconds |-> seconds])
       ELSE UNCHANGED <<temp_files, attachments>>
    /\ MediaFrame
    /\ UNCHANGED <<running, clipboard, clipboard_images, clip_adds, main_window, capture>>

\* the main window is closed: root.mainloop() returns and the process ends
Exit ==
    /\ running
    /\ main_window = "normal"
    /\ running' = FALSE
    /\ MediaFrame
    /\ UNCHANGED <<attachments, clipboard, clipboard_images, clip_adds, temp_files,
                   main_window, capture, recording>>

\* ------------------------------------------------------------ ModelManager
DefaultModel == "unsloth/gemma-3n-E4B-it"
Models == {DefaultModel, "unsloth/gemma-3n-E2B-it"}

\* ModelManager.config, and the value load_config returns without a file
CurrentConfig ==
    [downloaded_models |-> downloaded_models, last_used_model |-> last_used_model,
     offline_mode |-> offline_mode]

DefaultConfig ==
    [downloaded_models |-> <<>>, last_used_model |-> "none", offline_mode |-> FALSE]

\* config.json is a sequence of JSON tokens <<kind, text, characters>>:
\* punctuation, strings (in quotes), the literals true, false and null,
\* white space, and what is left of an older, longer content
Punct(c) == <<"p", c, 1>>
Lit(w) == <<"l", w, IF w = "false" THEN 5 ELSE 4>>
Space(n) == <<"w", " ", n>>
Leftover(n) == <<"rest", "", n>>

StrLen(str) ==
    CASE str = "downloaded_models" -> 17
      [] str = "last_used_model" -> 15
      [] str = "offline_mode" -> 12
      [] OTHER -> 23

Str(str) == <<"s", str, StrLen(str) + 2>>

RECURSIVE Size(_)
Size(doc) == IF doc = <<>> THEN 0 ELSE Head(doc)[3] + Size(Tail(doc))

\* json.dump(list, indent=2) for the list of model names
RECURSIVE DumpItems(_)
DumpItems(names) ==
    IF names = <<>> THEN <<>>
    ELSE <<Space(5), Str(Head(names))>>
         \o (IF Tail(names) = <<>> THEN <<Space(3)>> ELSE <<Punct(",")>>)
         \o DumpItems(Tail(names))

\* json.dump(self.config, f, indent=2); None is written as null
Dump(config) ==
    <<Punct("{"), Space(3), Str("downloaded_models"), Punct(":"), Space(1), Punct("[")>>
    \o DumpItems(config.downloaded_models)
    \o <<Punct("]"), Punct(","), Space(3), Str("last_used_model"), Punct(":"), Space(1),
         IF config.last_used_model = "none" THEN Lit("null")
         ELSE Str(config.last_used_model),
         Punct(","), Space(3), Str("offline_mode"), Punct(":"), Space(1),
         Lit(IF config.offline_mode THEN "true" ELSE "false"), Space(1), Punct("}")>>

\* the strings of a JSON array from token i of d on, and the token after "]"
RECURSIVE LoadItems(_, _, _)
LoadItems(d, i, acc) ==
    IF i > Len(d) THEN [ok |-> FALSE, items |-> acc, next |-> i]
    ELSE IF d[i] = Punct("]") /\ acc = <<>>
         THEN [ok |-> TRUE, items |-> acc, next |-> i + 1]
    ELSE IF d[i][1] = "s" /\ i + 1 <= Len(d) /\ d[i + 1] = Punct(",")
         THEN LoadItems(d, i + 2, Append(acc, d[i][2]))
    ELSE IF d[i][1] = "s" /\ i + 1 <= Len(d) /\ d[i + 1] = Punct("]")
         THEN [ok |-> TRUE, items |-> Append(acc, d[i][2]), next |-> i + 2]
    ELSE [ok |-> FALSE, items |-> acc, next |-> i]

\* load_config: json.load of the file; a missing file and anything json.load
\* rejects give the default config
load_config(doc) ==
    LET d == SelectSeq(doc, LAMBDA tok : tok[1] # "w")
        opens == Len(d) >= 4 /\ SubSeq(d, 1, 4) =
                   <<Punct("{"), Str("downloaded_models"), Punct(":"), Punct("[")>>
        list == LoadItems(d, 5, <<>>)
        k == list.next
        closes == Len(d) = k + 8
                  /\ SubSeq(d, k, k + 2) = <<Punct(","), Str("last_used_model"), Punct(":")>>
                  /\ d[k + 3][1] \in {"s", "l"}
                  /\ (d[k + 3][1] = "l" => d[k + 3] = Lit("null"))
                  /\ SubSeq(d, k + 4, k + 6) = <<Punct(","), Str("offline_mode"), Punct(":")>>
                  /\ d[k + 7] \in {Lit("true"), Lit("false")}
                  /\ d[k + 8] = Punct("}")
    IN  IF opens /\ list.ok /\ closes
        THEN [downloaded_models |-> list.items,
              last_used_model |-> IF d[k + 3][1] = "l" THEN "none" ELSE d[k + 3][2],
              offline_mode |-> d[k + 7] = Lit("true")]
        ELSE DefaultConfig

\* a file opened with 'w' and closed after others have written to it: the
\* buffer lands at offset 0 and a longer content keeps its end
WriteOver(buf, old) ==
    IF Size(old) <= Size(buf) THEN buf
    ELSE Append(buf, Leftover(Size(old) - Size(buf)))

\* save_config in a load or download thread: open(config_file, 'w') empties
\* the file and json.dump fills the buffer
save_config_open ==
    \E i \in DOMAIN savers :
      /\ savers[i].pc = "open"
      /\ config_file' = <<>>
      /\ savers' = [savers EXCEPT ![i].pc = "close", ![i].buf = Dump(CurrentConfig)]
      /\ UNCHANGED <<pipeVars, modelVars, colorVars, stored, toggled, sessions, docVars, mediaVars>>

\* leaving the with block writes the buffer; load_model or download_model
\* returns and the thread posts its callback
save_config_close ==
    \E i \in DOMAIN savers :
      /\ savers[i].pc = "close"
      /\ config_file' = WriteOver(savers[i].buf, config_file)
      /\ stored' = CurrentConfig
      /\ savers' = SubSeq(savers, 1, i - 1) \o SubSeq(savers, i + 1, Len(savers))
      /\ ui_calls' = Append(ui_calls, savers[i].post)
      /\ UNCHANGED <<pipeVars, offline_mode, last_used_model, downloaded_models,
                     local_models, online, init_pending, loaders, net_opened_offline,
                     colorVars, toggled, sessions, docVars, mediaVars>>

\* ModelManager.is_online: urlopen('https://huggingface.co'); the connection
\* is opened whatever the answer
ProbeOffline == offline_mode

\* ModelManager.load_model as run by a load thread: the result, and whether
\* it went to the network.  local_ok: load_local_model does not raise
load_model(model_name, local_ok) ==
    IF model_name \in local_models /\ local_ok
    THEN [ok |-> TRUE, net |-> FALSE, saved |-> FALSE]
    ELSE \* download_model: is_online, then FastModel.from_pretrained(hub name)
         [ok |-> online, net |-> TRUE, saved |-> online]

\* root.after(100, self.init_model_async): starts the load thread
init_model_async ==
    /\ init_pending
    /\ init_pending' = FALSE
    /\ loaders' = loaders \cup {[kind |-> "init", model |-> DefaultModel]}
    /\ UNCHANGED <<pipeVars, offline_mode, last_used_model, downloaded_models,
                   local_models, online, ui_calls, net_opened_offline, colorVars, auxVars>>

\* what load_model does in a load thread, r being its result: on success the
\* config is updated and save_config starts, the callback follows it; on
\* failure model_load_error is posted
AfterLoad(model_name, r) ==
    /\ net_opened_offline' = (net_opened_offline \/ (r.net /\ offline_mode))
    /\ IF r.ok
       THEN /\ savers' = Append(savers, [pc |-> "open", buf |-> <<>>,
                   post |-> [call |-> "model_load_complete", model |-> model_name]])
            /\ UNCHANGED ui_calls
       ELSE /\ ui_calls' = Append(ui_calls,
                   [call |-> "model_load_error", model |-> model_name])
            /\ UNCHANGED savers
    /\ UNCHANGED <<config_file, stored, toggled, sessions, docVars, mediaVars>>
    /\ last_used_model' = IF r.ok THEN model_name ELSE last_used_model
    /\ local_models' = IF r.saved THEN local_models \cup {model_name} ELSE local_models
    /\ downloaded_models' =
           IF r.saved /\ \A i \in DOMAIN downloaded_models : downloaded_models[i] # model_name
           THEN Append(downloaded_models, model_name) ELSE downloaded_models

\* the body of init_model_async's load_model thread: it reads the config,
\* probes the network with is_online, and loads unless nothing can be loaded
InitLoadThread ==
    \E th \in loaders, local_ok \in BOOLEAN :
      /\ th.kind = "init"
      /\ loaders' = loaders \ {th}
      /\ LET last == IF last_used_model # "none" THEN last_used_model ELSE DefaultModel
             r == load_model(last, local_ok)
             loads == ~(offline_mode /\ last \notin local_models)
                      /\ ~(~online /\ last \notin local_models)
         IN  IF loads
             THEN AfterLoad(last, [r EXCEPT !.net = TRUE])
             ELSE /\ net_opened_offline' = (net_opened_offline \/ ProbeOffline)
                  /\ UNCHANGED <<ui_calls, last_used_model, local_models,
                                 downloaded_models, auxVars>>
      /\ UNCHANGED <<pipeVars, offline_mode, online, init_pending, colorVars>>

\* load_specific_model: "Load Model" in the model manager
load_specific_model(model_name) ==
    /\ ~is_generating
    /\ Cardinality(loaders) + Len(savers) + Len(ui_calls) < MaxLoaders
    /\ model_loaded' = FALSE
    /\ loaders' = loaders \cup {[kind |-> "specific", model |-> model_name]}
    /\ UNCHANGED <<genVars, inputVars, offline_mode, last_used_model, downloaded_models,
                   local_models, online, init_pending, ui_calls, net_opened_offline,
                   colorVars, auxVars>>

\* the body of load_specific_model's load_thread
SpecificLoadThread ==
    \E th \in loaders, local_ok \in BOOLEAN :
      /\ th.kind = "specific"
      /\ loaders' = loaders \ {th}
      /\ AfterLoad(th.model, load_model(th.model, local_ok))
      /\ UNCHANGED <<pipeVars, offline_mode, online, init_pending, colorVars>>

\* ModelDownloadDialog.start_download: is_online is asked first; without a
\* connection the dialog reports "No Internet" and starts nothing
start_download(model_name) ==
    /\ Cardinality(loaders) + Len(savers) + Len(ui_calls) < MaxLoaders
    /\ net_opened_offline' = (net_opened_offline \/ ProbeOffline)
    /\ loaders' = IF online
                  THEN loaders \cup {[kind |-> "download", model |-> model_name]}
                  ELSE loaders
    /\ UNCHANGED <<pipeVars, offline_mode, last_used_model, downloaded_models,
                   local_models, online, init_pending, ui_calls, colorVars, auxVars>>

\* the body of start_download's download_thread: ModelManager.download_model
DownloadThread ==
    \E th \in loaders :
      /\ th.kind = "download"
      /\ loaders' = loaders \ {th}
      /\ net_opened_offline' = (net_opened_offline \/ ProbeOffline)
      /\ IF online
         THEN /\ savers' = Append(savers, [pc |-> "open", buf |-> <<>>,
                     post |-> [call |-> "download_complete", model |-> th.model]])
              /\ UNCHANGED ui_calls
         ELSE /\ ui_calls' = Append(ui_calls,
                     [call |-> "download_error", model |-> th.model])
              /\ UNCHANGED savers
      /\ last_used_model' = IF online THEN th.model ELSE last_used_model
      /\ local_models' = IF online THEN local_models \cup {th.model} ELSE local_models
      /\ downloaded_models' =
             IF online /\ \A i \in DOMAIN downloaded_models : downloaded_models[i] # th.model
             THEN Append(downloaded_models, th.model) ELSE downloaded_models
      /\ UNCHANGED <<pipeVars, offline_mode, online, init_pending, colorVars,
                     config_file, stored, toggled, sessions, docVars, mediaVars>>

\* ModelManagerViewer.toggle_offline_mode: the checkbox, then save_config
toggle_offline_mode ==
    /\ offline_mode' = ~offline_mode
    /\ config_file' = WriteOver(Dump([CurrentConfig EXCEPT !.offline_mode = ~offline_mode]),
                                <<>>)
    /\ stored' = [CurrentConfig EXCEPT !.offline_mode = ~offline_mode]
    /\ toggled' = TRUE
    /\ UNCHANGED <<pipeVars, last_used_model, downloaded_models, local_models, online,
                   init_pending, loaders, ui_calls, net_opened_offline, colorVars,
                   savers, sessions, docVars, mediaVars>>

\* the network comes or goes
NetworkChanges ==
    /\ online' = ~online
    /\ UNCHANGED <<pipeVars, offline_mode, last_used_model, downloaded_models,
                   local_models, init_pending, loaders, ui_calls, net_opened_offline,
                   colorVars, auxVars>>

\* the callbacks the load threads post: model_load_complete, model_load_error
\* and the download dialog's download_complete and download_error
RunUiCall ==
    /\ ui_calls # <<>>
    /\ ui_calls' = Tail(ui_calls)
    /\ model_loaded' = (model_loaded \/ Head(ui_calls).call = "model_load_complete")
    /\ UNCHANGED <<genVars, inputVars, offline_mode, last_used_model, downloaded_models,
                   local_models, online, init_pending, loaders, net_opened_offline,
                   colorVars, auxVars>>

\* ------------------------------------------------------- specification Spec
PipeInit ==
    /\ model_loaded = FALSE
    /\ is_generating = FALSE
    /\ current_generation_thread = 0
    /\ threads = <<>>
    /\ response_queue = <<>>
    /\ chat_history = <<>>
    /\ attachments = <<>>
    /\ context_text = <<>>
    /\ history_messages_var = <<"int", DefaultHistoryMessages>>
    /\ max_tokens_var = <<"int", DefaultMaxOutputTokens>>
    /\ max_output_tokens = DefaultMaxOutputTokens
    /\ send_btn = "normal"
    /\ stop_polls = 0
    /\ completed = <<>>
    /\ cleared = <<>>

\* a first start: no config file, nothing downloaded, the network is up
ModelFresh ==
    /\ DocClosed
    /\ MediaIdle
    /\ config_file = <<>>
    /\ savers = <<>>
    /\ stored = DefaultConfig
    /\ toggled = FALSE
    /\ sessions = <<>>
    /\ offline_mode = FALSE
    /\ last_used_model = "none"
    /\ downloaded_models = <<>>
    /\ local_models = {}
    /\ online = TRUE
    /\ init_pending = TRUE
    /\ loaders = {}
    /\ ui_calls = <<>>
    /\ net_opened_offline = FALSE

ColorIdle ==
    /\ token_count = 0
    /\ color = "none"

Init == PipeInit /\ ModelFresh /\ ColorIdle

Question == <<Word(1, 5)>>

Startup ==
    \/ init_model_async
    \/ InitLoadThread
    \/ save_config_open
    \/ save_config_close
    \/ RunUiCall

Next ==
    \/ Startup
    \/ send_message(MaxThreads, Question)
    \/ \E t \in ThreadIds : run(t, MaxChunks)
    \/ check_response_queue
    \/ stop_generation
    \/ check_stopped
    \/ clear_chat

Spec == Init /\ [][Next]_vars

\* --------------------------------------------------- specification LiveSpec
\* The same program with the scheduling the claims about progress assume:
\* every started thread keeps running (model.generate returns), and the Tk
\* event loop keeps firing its timers and posted callbacks.
LiveNext ==
    \/ Startup
    \/ send_message(LiveMaxThreads, Question)
    \/ \E t \in ThreadIds : run(t, LiveMaxChunks)
    \/ check_response_queue
    \/ stop_generation
    \/ check_stopped
    \/ clear_chat

Progress ==
    \/ Startup
    \/ check_response_queue
    \/ check_stopped
    \/ \E t \in ThreadIds : run(t, LiveMaxChunks)

Fairness == WF_vars(Progress)

LiveSpec == Init /\ [][LiveNext]_vars /\ Fairness

StopRequested ==
    /\ is_generating
    /\ current_generation_thread # 0
    /\ threads[current_generation_thread].stop

\* C4: once stop_generation has set the stop flag of the current worker,
\* is_generating eventually becomes False and the Send button is enabled again.
C4_StopEndsGeneration == StopRequested ~> (~is_generating /\ send_btn = "normal")

\* a stopped worker has ended without a 'complete', the conversation is still
\* there, and the interface is back to idle
C4_Stopped ==
    \E t \in DOMAIN threads :
        /\ threads[t].stop
        /\ ~is_alive(t)
        /\ completed[t] = NotYet
        /\ chat_history # <<>>
        /\ stop_polls = 0
        /\ ~is_generating
        /\ send_btn = "normal"

\* ------------------------------------------------- specification WorkerSpec
\* The steps of ModelThread.run interleaved with every callback of the UI
\* thread that touches the state of a generation, the user attaching images
\* while a generation is active or a worker is still running (what is
\* attached before that, send_message clears).
WorkerNext ==
    \/ LiveNext
    \/ ((is_generating \/ AliveThreads # {}) /\ select_image)

WorkerSpec == Init /\ [][WorkerNext]_vars

\* --------------------------------------------------- specification SendSpec
\* The requests send_message builds, over what the user can put in the
\* input box, the context panel, the two spinboxes and the attachment list.
Essay == <<Word(2, 31990)>>
Notes == <<Word(3, 10)>>
SendTexts == {Question, Essay}
TypedHistory == {<<"int", 0>>, <<"bad", 0>>}
TypedMaxTokens == {<<"int", 5>>, <<"bad", 0>>}

SendNext ==
    \/ Startup
    \/ on_document_processed(Notes)
    \/ clear_context
    \/ select_image
    \/ \E v \in TypedHistory : TypeHistoryMessages(v)
    \/ \E v \in TypedMaxTokens : update_max_tokens(v)
    \/ \E text \in SendTexts : send_message(SendMaxThreads, text)
    \/ \E t \in ThreadIds : run(t, SendMaxChunks)
    \/ check_response_queue

SendSpec == Init /\ [][SendNext]_vars

\* -------------------------------------------------- specification ModelSpec
\* The model manager, started on any configuration an earlier session can
\* have saved: offline mode on or off, models downloaded or not.
SavedConfigs ==
    {<<>>, <<DefaultModel>>, <<DefaultModel, "unsloth/gemma-3n-E2B-it">>}

Range(seq) == {seq[i] : i \in DOMAIN seq}

ModelInit ==
    /\ PipeInit
    /\ ColorIdle
    /\ offline_mode \in BOOLEAN
    /\ online \in BOOLEAN
    /\ downloaded_models \in SavedConfigs
    /\ local_models = Range(downloaded_models)
    /\ last_used_model \in {"none"} \cup local_models
    /\ config_file = Dump(CurrentConfig)
    /\ DocClosed
    /\ MediaIdle
    /\ savers = <<>>
    /\ stored = CurrentConfig
    /\ toggled = FALSE
    /\ sessions = <<>>
    /\ init_pending = TRUE
    /\ loaders = {}
    /\ ui_calls = <<>>
    /\ net_opened_offline = FALSE

ModelNext ==
    \/ Startup
    \/ toggle_offline_mode
    \/ NetworkChanges
    \/ \E m \in Range(downloaded_models) : load_specific_model(m)
    \/ SpecificLoadThread
    \/ \E m \in Models : start_download(m)
    \/ DownloadThread

ModelSpec == ModelInit /\ [][ModelNext]_vars

\* ------------------------------------------------- specification ConfigSpec
\* The model manager over more than one session: the window is closed, the
\* daemon load and download threads end with the process wherever they are,
\* and the next start builds a new ModelManager from config.json.
Restart ==
    /\ Len(sessions) < MaxSessions
    /\ LET loaded == load_config(config_file)
       IN  /\ sessions' = Append(sessions,
                  [toggled |-> toggled, stored |-> stored, loaded |-> loaded])
           /\ offline_mode' = loaded.offline_mode
           /\ last_used_model' = loaded.last_used_model
           /\ downloaded_models' = loaded.downloaded_models
           /\ stored' = loaded
    /\ toggled' = FALSE
    /\ savers' = <<>>
    /\ loaders' = {}
    /\ ui_calls' = <<>>
    /\ init_pending' = TRUE
    /\ model_loaded' = FALSE
    /\ UNCHANGED <<genVars, inputVars, local_models, online, net_opened_offline,
                   config_file, colorVars, docVars, mediaVars>>

ConfigNext ==
    \/ Startup
    \/ toggle_offline_mode
    \/ Restart

ConfigSpec == ModelInit /\ [][ConfigNext]_vars

\* ---------------------------------------------------- specification DocSpec
\* The document viewer on PDFs of up to MaxPages pages and on a text file.
TypedPages == {<<"int", n>> : n \in 0..(MaxPages + 1)} \cup {<<"bad", 0>>}

DocNext ==
    \/ \E is_pdf \in BOOLEAN, pages \in 1..MaxPages : select_document(is_pdf, pages)
    \/ prev_page
    \/ next_page
    \/ toggle_page_selection
    \/ \E page_from \in TypedPages, page_to \in TypedPages : select_range(page_from, page_to)
    \/ clear_selection
    \/ use_selected
    \/ use_all_text

DocSpec == Init /\ [][DocNext]_vars

\* -------------------------------------------------- specification MediaSpec
\* The clipboard monitor, the screen capture and the audio recorder, up to
\* the end of the process.
MediaNext ==
    \/ \E k \in 1..MaxImages : CopyImage(k)
    \/ \E address \in 1..MaxAddresses : check_clipboard(address)
    \/ capture_screen
    \/ show_capture_widget
    \/ on_release
    \/ CancelCapture
    \/ \E seconds \in 0..1 : toggle_recording(seconds)
    \/ Exit

MediaSpec == Init /\ [][MediaNext]_vars

\* -------------------------------------------------- specification ColorSpec
\* get_color_for_usage applied to token counts around each threshold, to an
\* empty context, to a full one and to one past the window.
Thresholds == {16000, 24000, 28800}

TokenCounts ==
    {0, max_context_tokens, max_context_tokens + image_tokens}
    \cup {n \in 0..(2 * max_context_tokens) :
            \E b \in Thresholds : n >= b - ColorRadius /\ n <= b + ColorRadius}

ColorInit ==
    /\ PipeInit
    /\ ModelFresh
    /\ token_count \in TokenCounts
    /\ color = "none"

\* update_token_display colours the usage label
ShowUsage ==
    /\ color = "none"
    /\ color' = get_color_for_usage(token_count)
    /\ UNCHANGED <<pipeVars, modelVars, token_count, auxVars>>

ColorNext == ShowUsage

ColorSpec == ColorInit /\ [][ColorNext]_vars

\* ------------------------------------------------------------------ claims
\* C1: at any time at most one ModelThread is alive: no worker is started
\* while an earlier one is still running.
C1_AtMostOneWorkerAlive == Cardinality(AliveThreads) <= 1

\* C2: once stop() has set a generation's stop event, that generation puts no
\* further chunk on the response queue (emitted counts its chunk puts).
C2_NoChunkAfterStop ==
    [][\A t \in DOMAIN threads :
          threads[t].stop => threads'[t].emitted = threads[t].emitted]_vars

\* C3: for a generation that is never stopped and during which the chat is
\* not cleared, when 'complete' is handled the content of its assistant
\* history entry is the concatenation of the chunks it emitted, in order.
C3_HistoryEqualsChunks ==
    \A t \in DOMAIN threads :
        (completed[t] # NotYet /\ ~threads[t].stop /\ ~cleared[t])
            => completed[t] = ChunksOf(t, threads[t].emitted)

\* the tokens of a dispatched request: its messages' contents
RECURSIVE RequestTokens(_)
RequestTokens(messages) ==
    IF messages = <<>> THEN 0
    ELSE count_text_tokens(Head(messages).content) + RequestTokens(Tail(messages))

\* C5: every request handed to a ModelThread (windowed history plus the final
\* user message with wrapper and context) is within the 32,000-token window.
C5_RequestWithinBudget ==
    \A t \in DOMAIN threads : RequestTokens(threads[t].messages) <= max_context_tokens

\* attachment a is part of the content of one of the messages
Included(a, messages) ==
    \E i \in DOMAIN messages :
        \E j \in DOMAIN messages[i].content : messages[i].content[j] = AttachmentPiece(a)

\* C7: every attachment queued when send_message succeeds is included in the
\* messages handed to the ModelThread, and the queue is empty afterwards.
C7_AttachmentsSent ==
    \A t \in DOMAIN threads :
        \A k \in DOMAIN threads[t].queued : Included(threads[t].queued[k], threads[t].messages)

\* C8: the number of earlier history entries in a dispatched request never
\* exceeds the "Messages to include" setting, for every integer it holds.
C8_HistoryWithinSetting ==
    \A t \in DOMAIN threads :
        Len(threads[t].messages) - 1 <= threads[t].max_messages

\* C9: the max_new_tokens handed to every ModelThread lies in 128..2048.
C9_MaxTokensInRange ==
    \A t \in DOMAIN threads : threads[t].max_tokens \in 128..2048

\* C6: while offline_mode is true the application opens no network
\* connection: not at start-up, not in load_model, not in is_online, not in
\* the download dialog.
C6_NoNetworkWhileOffline == ~net_opened_offline

\* C10: get_color_for_usage returns green below 50% of the 32000-token
\* window, yellow from 50% to below 75%, orange from 75% to below 90% and red
\* from 90%: the colour changes at 16000, 24000 and 28800 tokens.
C10_ColorThresholds ==
    color # "none" =>
        color = IF token_count < 16000 THEN "#28a745"
                ELSE IF token_count < 24000 THEN "#ffc107"
                ELSE IF token_count < 28800 THEN "#fd7e14"
                ELSE "#dc3545"

\* exactly 90% of the window is shown in red
C10_RedAtNinetyPercent == token_count = 28800 /\ color = "#dc3545"

\* C11: what toggle_offline_mode and save_config stored in one session is
\* what load_config gives the ModelManager of the next: offline_mode,
\* downloaded_models and last_used_model are read back unchanged.
C11_ConfigReadBack ==
    \A i \in DOMAIN sessions :
        sessions[i].toggled => sessions[i].loaded = sessions[i].stored

\* the text of pages 1..n, each under its page line
RECURSIVE TextOfPages(_, _)
TextOfPages(pages, n) ==
    IF n = 0 THEN <<>>
    ELSE TextOfPages(pages, n - 1)
         \o (IF n \in pages THEN <<PageHeader(n)>> \o PageText(n) ELSE <<>>)

\* C12: "Use All Text" hands the callback the text of every page and the page
\* list 1..total_pages whatever is selected; "Use Selected" hands it exactly
\* the selected pages' text and the sorted list of the selected pages.
C12_ViewerDelivers ==
    LET c == callback_args
        all == 1..c.total_pages
    IN  /\ (c.by = "all" /\ c.is_pdf) =>
               /\ c.text = TextOfPages(all, c.total_pages)
               /\ c.pages = [i \in all |-> i]
        /\ (c.by = "all" /\ ~c.is_pdf) => (c.text = FileText /\ c.pages = <<1>>)
        /\ c.by = "selected" =>
               /\ c.text = TextOfPages(c.selected_pages, c.total_pages)
               /\ c.pages = Sorted(c.selected_pages, 1)

\* C13: while the clipboard keeps holding the same image, the polls of
\* check_clipboard add it to the attachment list at most once.
C13_ClipboardAddedOnce == clip_adds <= 1

\* C14: once capture_screen has hidden the main window, the window is shown
\* again when the capture is over, whether the user selected an area or
\* pressed Escape (a cancelled capture adds nothing: it only ends the capture).
C14_WindowRestored == capture = "idle" => main_window = "normal"

\* C15: when the application has terminated, no temporary file it made for a
\* clipboard image, a screen capture or a recording is left.
C15_TempFilesCleaned == ~running => temp_files = {}

\* C16: the messages one run puts on the queue are chunks followed by at most
\* one of 'complete', 'stopped', 'error', nothing after it; a run that has
\* ended and whose stop event was never set has put its terminal message.
Terminal == {"complete", "stopped", "error"}

C16_ChunksThenTerminal ==
    \A t \in DOMAIN threads :
        LET put == threads[t].put
        IN  /\ \A i \in DOMAIN put : i < Len(put) => put[i] = "chunk"
            /\ (~is_alive(t) /\ ~threads[t].stop) =>
                   (put # <<>> /\ put[Len(put)] \in Terminal)

\* a run that was not stopped has streamed a chunk, failed over to the
\* fallback, put the fallback's chunk and then 'complete'
C16_StreamedAndCompleted ==
    \E t \in DOMAIN threads :
        /\ ~is_alive(t)
        /\ ~threads[t].stop
        /\ threads[t].put = <<"chunk", "chunk", "complete">>

\* C17: no step of ModelThread.run changes chat_history, is_generating,
\* current_generation_thread or the attachment list: the worker reaches the
\* UI only through the response queue, and those variables change in the
\* callbacks of the UI thread.
WorkerStep ==
    \E t \in DOMAIN threads :
        \/ threads'[t].pc # threads[t].pc
        \/ threads'[t].put # threads[t].put

C17_WorkerFrame ==
    [][WorkerStep => UNCHANGED <<chat_history, is_generating,
                                 current_generation_thread, attachments>>]_vars

\* the worker has put a chunk and its terminal message while the UI has not
\* polled and the user has attached an image: the generation is still marked
\* active, the entry still empty, the attachment still listed
C17_WorkerDoneUiUnchanged ==
    /\ is_generating
    /\ attachments # <<>>
    /\ current_generation_thread # 0
    /\ ~is_alive(current_generation_thread)
    /\ threads[current_generation_thread].emitted > 0
    /\ Len(response_queue) >= 2
    /\ chat_history[Len(chat_history)].content = <<>>

====
